---- MODULE Spec2Model ----
(***************************************************************************)
(* A model of blc, an interpreter for the binary lambda calculus.          *)
(*                                                                         *)
(* Bytes are the integers 0..255, byte strings are sequences of bytes and  *)
(* text is a sequence of code points.  A function that can abort (a Rust   *)
(* panic) yields a record with tag "Panic"; a Result is a record with tag  *)
(* "Ok" or "Err", an Option one with tag "Some" or "None".                 *)
(***************************************************************************)
EXTENDS Integers, Sequences, FiniteSets, TLC

VARIABLES
    overflow_checks, \* build profile: TRUE = arithmetic overflow panics (debug),
                     \* FALSE = it wraps (release)
    caller,          \* which caller of the library this behaviour follows
    pc,              \* position of the caller
    bits,            \* a "bit" string argument (ASCII bytes)
    arg,             \* a raw byte string argument
    input,           \* execution::Input variant: "Nothing", "Bytes", "Binary", or "-"
    calculation,     \* the term being handled, <<>> when there is none
    steps,           \* beta contractions done so far
    output,          \* intermediate value handed from one call to the next
    result           \* outcome of the last call

vars == <<overflow_checks, caller, pc, bits, arg, input, calculation, steps, output, result>>

-----------------------------------------------------------------------------
(* Bounds of the model *)

MaxBitsLen == 7     \* longest byte string given to from_bits
MaxBytes == 2       \* longest raw byte string given to the codecs
MaxTailBits == 7    \* most bits appended after whole bytes for compress
MaxSteps == 6       \* cap on the beta contractions followed in run
MaxInserted == 2    \* most whitespace bytes inserted into a bit string
MaxTermSize == 9    \* most nodes of a term given to the reducer
MaxIndex == 3       \* largest De Bruijn index in a term given to the reducer
MaxBitListLen == 4  \* longest list of Church booleans given to decode
MaxHeadLen == 2     \* longest list of arbitrary elements standing as a byte
MaxTerms == 3       \* longest vector of terms given to listify_terms

-----------------------------------------------------------------------------
(* Terms of lambda_calculus::term::Term *)

Var(i) == <<"Var", i>>

Abs(t) == <<"Abs", t>>

App(l, r) == <<"App", l, r>>

IsVar(t) == t[1] = "Var"

IsAbs(t) == t[1] = "Abs"

IsApp(t) == t[1] = "App"

tru == Abs(Abs(Var(2)))

fls == Abs(Abs(Var(1)))

Panic == [tag |-> "Panic"]

Byte == 0..255

-----------------------------------------------------------------------------
(* encoding/binary.rs: the binary codec *)

None == [tag |-> "None"]

Some(t, r) == [tag |-> "Some", term |-> t, rest |-> r]

NotATerm == [tag |-> "Err", err |-> "NotATerm"]

OkTerm(t) == [tag |-> "Ok", term |-> t]

WhitespaceWithoutTab == {10, 13, 32}

Whitespace == {9, 10, 13, 32}

Drop(s, n) == SubSeq(s, n + 1, Len(s))

RECURSIVE CountOnes(_)
CountOnes(s) ==
    IF s # <<>> /\ s[1] = 49 THEN 1 + CountOnes(Tail(s)) ELSE 0

FromBitsVarZeroBased(inp) ==
    LET i == CountOnes(inp) - 1 IN
    IF Drop(inp, 2) = <<>> THEN Some(Var(i), <<>>)
    ELSE IF i + 2 > Len(inp) THEN Panic
    ELSE Some(Var(i), Drop(inp, i + 2))

FromBitsVar(inp) ==
    LET i == CountOnes(inp) IN
    IF Drop(inp, 2) = <<>> THEN Some(Var(i), <<>>)
    ELSE IF i + 1 > Len(inp) THEN Panic      \* &input[i+1..] starts past the end
    ELSE Some(Var(i), Drop(inp, i + 1))

RECURSIVE _from_bits(_)
_from_bits(inp) ==
    IF inp = <<>> THEN None
    ELSE IF inp[1] \in Whitespace THEN _from_bits(Drop(inp, 1))
    ELSE IF Len(inp) < 2 THEN Panic          \* &input[0..2] ends past the end
    ELSE LET two == SubSeq(inp, 1, 2) IN
         IF two = <<48, 48>> THEN
              LET r == _from_bits(Drop(inp, 2)) IN
              IF r.tag = "Some" THEN Some(Abs(r.term), r.rest) ELSE r
         ELSE IF two = <<48, 49>> THEN
              LET r1 == _from_bits(Drop(inp, 2)) IN
              IF r1.tag = "Some" THEN
                   LET r2 == _from_bits(r1.rest) IN
                   IF r2.tag = "Some" THEN Some(App(r1.term, r2.term), r2.rest) ELSE r2
              ELSE r1
         ELSE IF two = <<49, 48>> \/ two = <<49, 49>> THEN FromBitsVar(inp)
         ELSE None

from_bits_whole_input(inp) ==
    LET r == _from_bits(inp) IN
    IF r.tag = "Some" THEN (IF r.rest = <<>> THEN OkTerm(r.term) ELSE NotATerm)
    ELSE IF r.tag = "None" THEN NotATerm
    ELSE Panic

from_bits(inp) ==
    LET r == _from_bits(inp) IN
    IF r.tag = "Some" THEN OkTerm(r.term)
    ELSE IF r.tag = "None" THEN NotATerm
    ELSE Panic

RECURSIVE Ones(_)
Ones(n) == IF n = 0 THEN <<>> ELSE <<49>> \o Ones(n - 1)

RECURSIVE to_bits_inclusive_range(_)
to_bits_inclusive_range(t) ==
    IF IsVar(t) THEN Ones(t[2] + 1) \o <<48>>
    ELSE IF IsAbs(t) THEN <<48, 48>> \o to_bits_inclusive_range(t[2])
    ELSE <<48, 49>> \o to_bits_inclusive_range(t[2]) \o to_bits_inclusive_range(t[3])

RECURSIVE to_bits(_)
to_bits(t) ==
    IF IsVar(t) THEN Ones(t[2]) \o <<48>>
    ELSE IF IsAbs(t) THEN <<48, 48>> \o to_bits(t[2])
    ELSE <<48, 49>> \o to_bits(t[2]) \o to_bits(t[3])

-----------------------------------------------------------------------------
(* The grammar of section 4.C, read off the bit string itself *)

IsBitString(s) == \A k \in 1..Len(s) : s[k] \in {48, 49}

\* The position after the variable token 1+ 0 that starts at p, 0 when there is none.
RECURSIVE VarEnd(_, _)
VarEnd(s, p) ==
    IF p > Len(s) THEN 0
    ELSE IF s[p] = 48 THEN p + 1
    ELSE IF s[p] = 49 THEN VarEnd(s, p + 1)
    ELSE 0

\* The position after the complete term that starts at p, 0 when there is none.
RECURSIVE TermEnd(_, _)
TermEnd(s, p) ==
    IF p + 1 > Len(s) THEN 0
    ELSE IF s[p] = 48 /\ s[p + 1] = 48 THEN TermEnd(s, p + 2)
    ELSE IF s[p] = 48 /\ s[p + 1] = 49 THEN
         LET m == TermEnd(s, p + 2) IN IF m = 0 THEN 0 ELSE TermEnd(s, m)
    ELSE IF s[p] = 49 THEN VarEnd(s, p + 1)
    ELSE 0

IsCompleteTerm(s) == IsBitString(s) /\ TermEnd(s, 1) = Len(s) + 1

-----------------------------------------------------------------------------
(* Properties of terms *)

RECURSIVE Closed(_, _)
Closed(t, depth) ==
    IF IsVar(t) THEN t[2] >= 1 /\ t[2] <= depth
    ELSE IF IsAbs(t) THEN Closed(t[2], depth + 1)
    ELSE Closed(t[2], depth) /\ Closed(t[3], depth)

RECURSIVE IndicesPositive(_)
IndicesPositive(t) ==
    IF IsVar(t) THEN t[2] >= 1
    ELSE IF IsAbs(t) THEN IndicesPositive(t[2])
    ELSE IndicesPositive(t[2]) /\ IndicesPositive(t[3])

-----------------------------------------------------------------------------
(* Inputs *)

RECURSIVE SeqsUpTo(_, _)
SeqsUpTo(S, n) ==
    IF n = 0 THEN {<<>>}
    ELSE LET shorter == SeqsUpTo(S, n - 1) IN
         shorter \cup {Append(s, x) : s \in {q \in shorter : Len(q) = n - 1}, x \in S}

BitAlphabet == {48, 49, 32, 120}   \* '0', '1', ' ', 'x'

BitInputs == SeqsUpTo(BitAlphabet, MaxBitsLen)

-----------------------------------------------------------------------------
(* A caller of from_bits and to_bits *)

InitBits ==
    /\ overflow_checks \in BOOLEAN
    /\ caller = "bits"
    /\ pc = "from_bits"
    /\ bits \in BitInputs
    /\ arg = <<>>
    /\ input = "-"
    /\ calculation = <<>>
    /\ steps = 0
    /\ output = <<>>
    /\ result = [tag |-> "-"]

CallFromBits ==
    /\ pc = "from_bits"
    /\ result' = from_bits(bits)
    /\ calculation' = IF result'.tag = "Ok" THEN result'.term ELSE <<>>
    /\ pc' = IF result'.tag = "Ok" THEN "to_bits" ELSE "done"
    /\ UNCHANGED <<overflow_checks, caller, bits, arg, input, steps, output>>

CallToBits ==
    /\ pc = "to_bits"
    /\ output' = to_bits(calculation)
    /\ pc' = "done"
    /\ UNCHANGED <<overflow_checks, caller, bits, arg, input, calculation, steps, result>>

NextBits == CallFromBits \/ CallToBits

SpecBits == InitBits /\ [][NextBits]_vars

-----------------------------------------------------------------------------
(* encoding/binary.rs: packing "bits" into bytes and back *)

\* usize::MAX + 1.  usize is 16 bits wide or wider on every target; the
\* narrowest width is taken, every length of the model being far below it.
UsizeModulus == 65536

OkVal(v) == [tag |-> "Ok", val |-> v]

Overflows(x) == x < 0 \/ x > 255

Wrap(x) == x % 256

\* fold(0, |acc, &b| acc * 2 + (b - 48)) in u8 arithmetic
RECURSIVE bits_to_byte_fold(_, _)
bits_to_byte_fold(acc, s) ==
    IF s = <<>> THEN OkVal(acc)
    ELSE LET d == s[1] - 48
             dbl == acc * 2
             sum == Wrap(dbl) + Wrap(d)
         IN  IF overflow_checks /\ (Overflows(d) \/ Overflows(dbl) \/ Overflows(sum))
             THEN Panic
             ELSE bits_to_byte_fold(Wrap(sum), Tail(s))

bits_to_byte(s) == bits_to_byte_fold(0, s)

\* while pos <= length - 8 { output.push(bits_to_byte(&bits[pos..(pos + 8)])); pos += 8 }
RECURSIVE compress_loop(_, _, _, _)
compress_loop(bs, limit, pos, out) ==
    IF pos <= limit THEN
         IF pos + 8 > Len(bs) THEN Panic     \* &bits[pos..(pos + 8)] ends past the end
         ELSE LET b == bits_to_byte(SubSeq(bs, pos + 1, pos + 8)) IN
              IF b.tag = "Panic" THEN Panic
              ELSE compress_loop(bs, limit, pos + 8, Append(out, b.val))
    ELSE [tag |-> "Ok", val |-> out, pos |-> pos]

Zeros(n) == [k \in 1..n |-> 48]

compress(bs) ==
    LET length == Len(bs) IN
    IF length - 8 < 0 /\ overflow_checks THEN Panic   \* length - 8 overflows usize
    ELSE LET loop == compress_loop(bs, (length - 8) % UsizeModulus, 0, <<>>) IN
         IF loop.tag = "Panic" THEN Panic
         ELSE IF loop.pos # length THEN
              LET last_byte == Drop(bs, loop.pos) \o Zeros(8 - (length - loop.pos))
                  b == bits_to_byte(last_byte)
              IN  IF b.tag = "Panic" THEN Panic ELSE OkVal(Append(loop.val, b.val))
         ELSE OkVal(loop.val)

\* format!("{:08b}", byte): eight ASCII digits, most significant first
Pow2(n) == IF n = 0 THEN 1 ELSE IF n = 1 THEN 2 ELSE IF n = 2 THEN 4 ELSE IF n = 3 THEN 8
           ELSE IF n = 4 THEN 16 ELSE IF n = 5 THEN 32 ELSE IF n = 6 THEN 64 ELSE 128

Format08b(byte) == [k \in 1..8 |-> 48 + ((byte \div Pow2(8 - k)) % 2)]

RECURSIVE decompress(_)
decompress(bytes) ==
    IF bytes = <<>> THEN <<>>
    ELSE Format08b(bytes[1]) \o decompress(Tail(bytes))

-----------------------------------------------------------------------------
(* Inputs of the packing and of the lambda codec *)

ByteSample == {0, 1, 48, 49, 128, 255}

\* Byte strings whose first byte is any byte and whose later bytes are sampled.
ByteSeqs ==
    {<<>>} \cup
    (IF MaxBytes = 0 THEN {}
     ELSE {<<b>> \o s : b \in Byte, s \in SeqsUpTo(ByteSample, MaxBytes - 1)})

\* "Bit" strings of every length up to 8 * MaxBytes + MaxTailBits.
PackBitInputs ==
    {decompress(b) \o t : b \in SeqsUpTo(ByteSample, MaxBytes),
                          t \in SeqsUpTo({48, 49}, MaxTailBits)}

-----------------------------------------------------------------------------
(* A caller of decompress then compress, and one of compress then decompress *)

InitPack ==
    /\ overflow_checks \in BOOLEAN
    /\ \/ caller = "unpack" /\ pc = "decompress" /\ arg \in ByteSeqs /\ bits = <<>>
       \/ caller = "pack" /\ pc = "compress" /\ arg = <<>> /\ bits \in PackBitInputs
    /\ input = "-"
    /\ calculation = <<>>
    /\ steps = 0
    /\ output = <<>>
    /\ result = [tag |-> "-"]

CallDecompress ==
    /\ caller = "unpack" /\ pc = "decompress"
    /\ output' = decompress(arg)
    /\ pc' = "compress"
    /\ UNCHANGED <<overflow_checks, caller, bits, arg, input, calculation, steps, result>>

CallCompressBack ==
    /\ caller = "unpack" /\ pc = "compress"
    /\ result' = compress(output)
    /\ pc' = "done"
    /\ UNCHANGED <<overflow_checks, caller, bits, arg, input, calculation, steps, output>>

CallCompress ==
    /\ caller = "pack" /\ pc = "compress"
    /\ result' = compress(bits)
    /\ pc' = IF result'.tag = "Ok" THEN "decompress" ELSE "done"
    /\ UNCHANGED <<overflow_checks, caller, bits, arg, input, calculation, steps, output>>

CallDecompressBack ==
    /\ caller = "pack" /\ pc = "decompress"
    /\ output' = decompress(result.val)
    /\ pc' = "done"
    /\ UNCHANGED <<overflow_checks, caller, bits, arg, input, calculation, steps, result>>

NextPack == CallDecompress \/ CallCompressBack \/ CallCompress \/ CallDecompressBack

SpecPack == InitPack /\ [][NextPack]_vars

-----------------------------------------------------------------------------
(* pair_list.rs: Church pairs and lists *)

NotAList == [tag |-> "Err", err |-> "NotAList"]

OkPair(a, b) == [tag |-> "Ok", fst |-> a, snd |-> b]

\* The shape test shared by uncons_ref, uncons_mut and unpair_ref: strip one
\* Abs when there is one, then take App(App(_, a), b) apart.
UnpairShape(term) ==
    LET candidate == IF IsAbs(term) THEN term[2] ELSE term IN
    IF IsApp(candidate) THEN
         IF ~IsApp(candidate[2]) THEN NotAList
         ELSE OkPair(candidate[2][3], candidate[3])
    ELSE NotAList

uncons_ref(term) == UnpairShape(term)

uncons_mut(term) == UnpairShape(term)

unpair_ref(term) == UnpairShape(term)

is_pair(term) == unpair_ref(term).tag = "Ok"

snd_ref(term) ==
    LET r == unpair_ref(term) IN
    IF r.tag = "Ok" THEN OkVal(r.snd) ELSE r

RECURSIVE LastCandidate(_)
LastCandidate(last_candidate) ==
    LET second == snd_ref(last_candidate) IN
    IF second.tag = "Ok" THEN LastCandidate(second.val) ELSE last_candidate

last_ref(term) ==
    IF ~is_pair(term) THEN NotAList
    ELSE OkVal(LastCandidate(snd_ref(term).val))

is_list(term) == last_ref(term) = OkVal(fls)

uncons(term) ==
    IF ~is_list(term) THEN NotAList ELSE UnpairShape(term)

\* the second payload of the pair read where the first belongs
head_ref_second_payload(term) ==
    LET r == uncons_ref(term) IN
    IF r.tag = "Ok" THEN OkVal(r.snd) ELSE r

head_ref(term) ==
    LET r == uncons_ref(term) IN
    IF r.tag = "Ok" THEN OkVal(r.fst) ELSE r

tail(term) ==
    LET r == uncons(term) IN
    IF r.tag = "Ok" THEN OkVal(r.snd) ELSE r

push(list, term) ==
    IF ~is_list(list) /\ list # fls THEN NotAList
    ELSE OkVal(Abs(App(App(Var(1), term), list)))

\* pop(&mut term): the outcome and what term holds afterwards
pop(term) ==
    LET r == uncons_mut(term) IN
    IF r.tag = "Ok" THEN [tag |-> "Ok", val |-> r.fst, term |-> r.snd]
    ELSE [tag |-> "Err", err |-> "NotAList", term |-> Var(0)]

\* push(..).expect(..) aborts on an error
RECURSIVE listify_terms(_)
listify_terms(terms) ==
    IF terms = <<>> THEN fls
    ELSE LET r == push(listify_terms(Tail(terms)), terms[1]) IN
         IF r.tag = "Ok" THEN r.val ELSE Panic

RECURSIVE vectorize_list(_)
vectorize_list(list) ==
    LET p == pop(list) IN
    IF p.tag = "Ok" THEN <<p.val>> \o vectorize_list(p.term) ELSE <<>>

-----------------------------------------------------------------------------
(* The display form of a term, as the fixtures of section 4.A show it *)

HexDigit(d) == IF d < 10 THEN 48 + d ELSE 55 + d

RECURSIVE Hex(_)
Hex(n) == IF n < 16 THEN <<HexDigit(n)>> ELSE Hex(n \div 16) \o <<HexDigit(n % 16)>>

RECURSIVE Display(_)
Display(t) ==
    IF IsVar(t) THEN Hex(t[2])
    ELSE IF IsAbs(t) THEN <<955>> \o Display(t[2])
    ELSE (IF IsAbs(t[2]) THEN <<40>> \o Display(t[2]) \o <<41>> ELSE Display(t[2]))
         \o (IF IsVar(t[3]) THEN Display(t[3]) ELSE <<40>> \o Display(t[3]) \o <<41>>)

-----------------------------------------------------------------------------
(* encoding/lambda.rs: the lambda codec *)

\* t.unabs().and_then(|t| t.unabs()).and_then(|t| t.unvar())
UnabsUnabsUnvar(t) ==
    IF IsAbs(t) /\ IsAbs(t[2]) /\ IsVar(t[2][2]) THEN OkVal(t[2][2][2])
    ELSE [tag |-> "Err", err |-> "TermError"]

\* .map(|b| (b.unwrap() - 1) as u8).fold(0, |acc, b| acc * 2 + b)
RECURSIVE DecodeByteFold(_, _)
DecodeByteFold(acc, ks) ==
    IF ks = <<>> THEN OkVal(acc)
    ELSE LET dec == ks[1] - 1             \* in usize
             b == dec % 256               \* as u8
             dbl == acc * 2
             sum == Wrap(dbl) + b
         IN  IF overflow_checks /\ (dec < 0 \/ Overflows(dbl) \/ Overflows(sum))
             THEN Panic
             ELSE DecodeByteFold(Wrap(sum), Tail(ks))

decode_byte_no_complement(encoded_byte) ==
    LET elems == vectorize_list(encoded_byte)
        bs == [k \in 1..Len(elems) |-> UnabsUnabsUnvar(elems[k])]
    IN  IF \E k \in 1..Len(bs) : bs[k].tag = "Err" THEN NotATerm
        ELSE DecodeByteFold(0, [k \in 1..Len(bs) |-> bs[k].val])

decode_byte(encoded_byte) ==
    LET elems == vectorize_list(encoded_byte)
        bs == [k \in 1..Len(elems) |-> UnabsUnabsUnvar(elems[k])]
    IN  IF \E k \in 1..Len(bs) : bs[k].tag = "Err" THEN NotATerm
        ELSE LET acc == DecodeByteFold(0, [k \in 1..Len(bs) |-> bs[k].val]) IN
             IF acc.tag = "Ok" THEN OkVal(255 - acc.val) ELSE acc

\* the text put after what the tail decodes to
PrependAfter(prefix, rest) ==
    IF rest.tag = "Ok" THEN OkVal(rest.val \o prefix) ELSE rest

\* Ok(prefix + &rest?)
Prepend(prefix, rest) ==
    IF rest.tag = "Ok" THEN OkVal(prefix \o rest.val) ELSE rest

\* tail(term).unwrap(), then decode
RECURSIVE decode(_)
DecodeTail(term) ==
    LET t == tail(term) IN
    IF t.tag = "Ok" THEN decode(t.val) ELSE Panic

decode(term) ==
    IF term = fls THEN OkVal(<<>>)
    ELSE IF is_list(term) /\ is_list(head_ref(term).val) THEN
         LET u == uncons(term)
             byte == decode_byte(u.fst)
         IN  IF byte.tag = "Ok" THEN Prepend(<<byte.val>>, decode(u.snd)) ELSE byte
    ELSE IF head_ref(term) = OkVal(fls) THEN Prepend(<<49>>, DecodeTail(term))
    ELSE IF head_ref(term) = OkVal(tru) THEN Prepend(<<48>>, DecodeTail(term))
    ELSE OkVal(<<40>> \o Display(term) \o <<41>>)

encode_bit(bit) ==
    IF bit = 48 THEN tru
    ELSE IF bit = 49 THEN fls
    ELSE Panic                             \* unreachable!()

\* the earlier revision's shortcut: the bytes '0' and '1' become one boolean
encode_byte_digit_shortcut(byte) ==
    IF byte = 48 THEN tru
    ELSE IF byte = 49 THEN fls
    ELSE LET bs == Format08b(byte) IN
         listify_terms([k \in 1..Len(bs) |-> encode_bit(bs[k])])

encode_byte(byte) ==
    LET bs == Format08b(byte) IN
    listify_terms([k \in 1..Len(bs) |-> encode_bit(bs[k])])

encode(inp) == listify_terms([k \in 1..Len(inp) |-> encode_byte(inp[k])])

-----------------------------------------------------------------------------
(* A caller of encode then decode *)

InitLambda ==
    /\ overflow_checks \in BOOLEAN
    /\ caller = "lambda"
    /\ pc = "encode"
    /\ bits = <<>>
    /\ arg \in ByteSeqs
    /\ input = "-"
    /\ calculation = <<>>
    /\ steps = 0
    /\ output = <<>>
    /\ result = [tag |-> "-"]

CallEncode ==
    /\ caller = "lambda" /\ pc = "encode"
    /\ calculation' = encode(arg)
    /\ pc' = "decode"
    /\ UNCHANGED <<overflow_checks, caller, bits, arg, input, steps, output, result>>

CallDecode ==
    /\ caller = "lambda" /\ pc = "decode"
    /\ result' = decode(calculation)
    /\ pc' = "done"
    /\ UNCHANGED <<overflow_checks, caller, bits, arg, input, calculation, steps, output>>

NextLambda == CallEncode \/ CallDecode

SpecLambda == InitLambda /\ [][NextLambda]_vars

-----------------------------------------------------------------------------
(* binary_encoding.rs and lambda_encoding.rs: the codec revision that        *)
(* execution.rs imports.  from_binary is from_bits under its earlier name.   *)
(* The list methods decode calls on a Term (is_list, head_ref, uncons, tail, *)
(* into_iter, push) are the ones pair_list.rs carries, and are read from it. *)

from_binary(inp) == from_bits(inp)

\* lines 25-34: the head list folded into a byte; unwrap() aborts on an
\* element that is not Abs(Abs(Var(k)))
DecodeHeadByte(head) ==
    LET terms == vectorize_list(head)
        ks == [k \in 1..Len(terms) |-> UnabsUnabsUnvar(terms[k])]
    IN  IF \E k \in 1..Len(ks) : ks[k].tag = "Err" THEN Panic
        ELSE LET acc == DecodeByteFold(0, [k \in 1..Len(ks) |-> ks[k].val]) IN
             IF acc.tag = "Ok" THEN OkVal(255 - acc.val) ELSE acc

\* decode returns a String; OkVal(text) is a normal return, Panic an abort
RECURSIVE lambda_encoding_decode(_)
LambdaEncodingDecodeTail(term) ==
    LET t == tail(term) IN
    IF t.tag = "Ok" THEN lambda_encoding_decode(t.val) ELSE Panic

lambda_encoding_decode(term) ==
    IF term = fls THEN OkVal(<<>>)
    ELSE IF is_list(term) /\ is_list(head_ref(term).val) THEN
         LET u == uncons(term)
             byte == DecodeHeadByte(u.fst)
         IN  IF byte.tag = "Ok" THEN Prepend(<<byte.val>>, lambda_encoding_decode(u.snd))
             ELSE byte
    ELSE IF head_ref(term) = OkVal(fls) THEN Prepend(<<49>>, LambdaEncodingDecodeTail(term))
    ELSE IF head_ref(term) = OkVal(tru) THEN Prepend(<<48>>, LambdaEncodingDecodeTail(term))
    ELSE OkVal(<<40>> \o Display(term) \o <<41>>)

\* input.iter().rev().fold(nil(), |acc, &b| acc.push(f(b)))
RECURSIVE FoldPush(_)
FoldPush(terms) ==
    IF terms = <<>> THEN fls
    ELSE Abs(App(App(Var(1), terms[1]), FoldPush(Tail(terms))))

lambda_encoding_encode_byte(b) ==
    IF b = 48 THEN tru
    ELSE IF b = 49 THEN fls
    ELSE LET ds == Format08b(b) IN
         FoldPush([k \in 1..Len(ds) |-> IF ds[k] = 48 THEN tru ELSE fls])

lambda_encoding_encode(inp) ==
    FoldPush([k \in 1..Len(inp) |-> lambda_encoding_encode_byte(inp[k])])

-----------------------------------------------------------------------------
(* The reducer of section 4.B: beta(term, NOR, 0) *)

\* a shift that forgets to raise the cutoff under a binder
RECURSIVE ShiftFixedCutoff(_, _, _)
ShiftFixedCutoff(d, c, t) ==
    IF IsVar(t) THEN (IF t[2] <= c THEN t ELSE Var(t[2] + d))
    ELSE IF IsAbs(t) THEN Abs(ShiftFixedCutoff(d, c, t[2]))
    ELSE App(ShiftFixedCutoff(d, c, t[2]), ShiftFixedCutoff(d, c, t[3]))

RECURSIVE shift(_, _, _)
shift(d, c, t) ==
    IF IsVar(t) THEN (IF t[2] <= c THEN t ELSE Var(t[2] + d))
    ELSE IF IsAbs(t) THEN Abs(shift(d, c + 1, t[2]))
    ELSE App(shift(d, c, t[2]), shift(d, c, t[3]))

RECURSIVE subst(_, _, _)
subst(t, j, s) ==
    IF IsVar(t) THEN (IF t[2] = j THEN shift(j - 1, 0, s) ELSE t)
    ELSE IF IsAbs(t) THEN Abs(subst(t[2], j + 1, s))
    ELSE App(subst(t[2], j, s), subst(t[3], j, s))

\* the contraction of App(Abs(b), a)
Contract(b, a) == shift(-1, 0, subst(b, 1, shift(1, 0, a)))

RECURSIVE HasRedex(_)
HasRedex(t) ==
    IF IsVar(t) THEN FALSE
    ELSE IF IsAbs(t) THEN HasRedex(t[2])
    ELSE IsAbs(t[2]) \/ HasRedex(t[2]) \/ HasRedex(t[3])

\* one contraction of the leftmost-outermost redex
RECURSIVE NorStep(_)
NorStep(t) ==
    IF IsVar(t) THEN t
    ELSE IF IsAbs(t) THEN Abs(NorStep(t[2]))
    ELSE IF IsAbs(t[2]) THEN Contract(t[2][2], t[3])
    ELSE IF HasRedex(t[2]) THEN App(NorStep(t[2]), t[3])
    ELSE App(t[2], NorStep(t[3]))

-----------------------------------------------------------------------------
(* execution.rs: run *)

InvalidProgram == [tag |-> "Err", err |-> "InvalidProgram"]

InvalidArgument == [tag |-> "Err", err |-> "InvalidArgument"]

\* The outcome of run up to the call of beta: the term handed to beta, or the
\* early return.
RunBytesArgumentFirst(blc_program, kind, a) ==
    LET program == from_binary(blc_program) IN
    IF program.tag = "Panic" THEN Panic
    ELSE IF program.tag = "Err" THEN InvalidProgram
    ELSE IF kind = "Nothing" THEN OkTerm(program.term)
    ELSE IF kind = "Bytes" THEN OkTerm(App(lambda_encoding_encode(a), program.term))
    ELSE LET parsed == from_binary(a) IN
         IF parsed.tag = "Panic" THEN Panic
         ELSE IF parsed.tag = "Ok" THEN OkTerm(App(program.term, parsed.term))
         ELSE InvalidArgument

RunTerm(blc_program, kind, a) ==
    LET program == from_binary(blc_program) IN
    IF program.tag = "Panic" THEN Panic
    ELSE IF program.tag = "Err" THEN InvalidProgram
    ELSE IF kind = "Nothing" THEN OkTerm(program.term)
    ELSE IF kind = "Bytes" THEN OkTerm(App(program.term, lambda_encoding_encode(a)))
    ELSE LET parsed == from_binary(a) IN
         IF parsed.tag = "Panic" THEN Panic
         ELSE IF parsed.tag = "Ok" THEN OkTerm(App(program.term, parsed.term))
         ELSE InvalidArgument

\* Programs and arguments given to run
Identity == Abs(Var(1))

Omega == App(Abs(App(Var(1), Var(1))), Abs(App(Var(1), Var(1))))

\* a one-byte string whose byte list holds λ1 where a Church boolean belongs
BadByteList == FoldPush(<<FoldPush(<<tru, Identity>>)>>)

\* λ.1 tru: the head of its argument list
HeadOf == Abs(App(Var(1), tru))

RunPrograms ==
    {to_bits(t) : t \in {Identity, Omega, BadByteList, Abs(BadByteList), HeadOf,
                         Abs(fls), tru}}
    \cup {decompress(<<32>>), <<>>, <<48>>, <<49, 49, 49>>, <<120, 120>>}

RunBinaryArgs == {<<>>, <<48>>, <<120, 120>>, to_bits(Identity), to_bits(tru)}

RunBytesArgs == {<<>>, <<97>>, <<48, 49>>}

InitRun ==
    /\ overflow_checks \in BOOLEAN
    /\ caller = "run"
    /\ pc = "run"
    /\ \/ bits = decompress(<<32>>) /\ input = "Bytes" /\ arg \in ByteSeqs
       \/ bits \in RunPrograms /\ input = "Nothing" /\ arg = <<>>
       \/ bits \in RunPrograms /\ input = "Bytes" /\ arg \in RunBytesArgs
       \/ bits \in RunPrograms /\ input = "Binary" /\ arg \in RunBinaryArgs
    /\ calculation = <<>>
    /\ steps = 0
    /\ output = <<>>
    /\ result = [tag |-> "-"]

\* run up to the call of beta
RunStart ==
    /\ caller = "run" /\ pc = "run"
    /\ LET r == RunTerm(bits, input, arg) IN
       IF r.tag = "Ok"
       THEN calculation' = r.term /\ pc' = "beta" /\ result' = result
       ELSE calculation' = calculation /\ pc' = "done" /\ result' = r
    /\ UNCHANGED <<overflow_checks, caller, bits, arg, input, steps, output>>

\* one contraction inside beta(.., NOR, 0)
RunBeta ==
    /\ caller = "run" /\ pc = "beta"
    /\ HasRedex(calculation)
    /\ steps < MaxSteps
    /\ calculation' = NorStep(calculation)
    /\ steps' = steps + 1
    /\ UNCHANGED <<overflow_checks, caller, pc, bits, arg, input, output, result>>

\* beta has returned the normal form: Ok(decode(calculation))
RunDecode ==
    /\ caller = "run" /\ pc = "beta"
    /\ ~HasRedex(calculation)
    /\ result' = lambda_encoding_decode(calculation)
    /\ pc' = "done"
    /\ UNCHANGED <<overflow_checks, caller, bits, arg, input, calculation, steps, output>>

NextRun == RunStart \/ RunBeta \/ RunDecode

SpecRun == InitRun /\ [][NextRun]_vars

-----------------------------------------------------------------------------
(* A caller of from_bits on a bit string with whitespace between its tokens *)

\* The whitespace bytes of section 4.C
SpacingBytes == {9, 10, 13, 32}

\* The bit strings that are exactly one complete term
CompleteTerms == {s \in SeqsUpTo({48, 49}, MaxBitsLen) : IsCompleteTerm(s)}

\* The offsets of s where a token (00, 01 or 1..10) starts, and the offset
\* after the last token; whitespace between tokens belongs to no token.
RECURSIVE TokenBoundaries(_, _)
RECURSIVE SkipOnes(_, _)
TokenBoundaries(s, p) ==
    IF p >= Len(s) THEN {p}
    ELSE IF s[p + 1] \in SpacingBytes THEN {p} \cup TokenBoundaries(s, p + 1)
    ELSE IF s[p + 1] = 48 THEN
         {p} \cup (IF p + 2 <= Len(s) THEN TokenBoundaries(s, p + 2) ELSE {})
    ELSE {p} \cup SkipOnes(s, p + 1)

SkipOnes(s, p) ==
    IF p >= Len(s) THEN {}
    ELSE IF s[p + 1] = 49 THEN SkipOnes(s, p + 1)
    ELSE TokenBoundaries(s, p + 1)

InsertAt(s, p, w) == SubSeq(s, 1, p) \o <<w>> \o SubSeq(s, p + 1, Len(s))

InitSpaced ==
    /\ overflow_checks \in BOOLEAN
    /\ caller = "spaced"
    /\ pc = "spacing"
    /\ arg \in CompleteTerms
    /\ bits = arg
    /\ input = "-"
    /\ calculation = <<>>
    /\ steps = 0
    /\ output = <<>>
    /\ result = [tag |-> "-"]

\* one more whitespace byte before a token or after the last one
InsertWhitespace ==
    /\ caller = "spaced" /\ pc = "spacing"
    /\ steps < MaxInserted
    /\ \E p \in TokenBoundaries(bits, 0), w \in SpacingBytes :
           bits' = InsertAt(bits, p, w)
    /\ steps' = steps + 1
    /\ UNCHANGED <<overflow_checks, caller, pc, arg, input, calculation, output, result>>

CallFromBitsSpaced ==
    /\ caller = "spaced" /\ pc = "spacing"
    /\ result' = from_bits(bits)
    /\ pc' = "done"
    /\ UNCHANGED <<overflow_checks, caller, bits, arg, input, calculation, steps, output>>

NextSpaced == InsertWhitespace \/ CallFromBitsSpaced

SpecSpaced == InitSpaced /\ [][NextSpaced]_vars

-----------------------------------------------------------------------------
(* A caller of the reducer on closed terms *)

\* The terms of exactly n nodes, under depth binders, whose free indices
\* are bound by them; indices are 1..MaxIndex
RECURSIVE ClosedTermsOfSize(_, _)
ClosedTermsOfSize(n, depth) ==
    IF n = 1 THEN {Var(i) : i \in 1..(IF depth < MaxIndex THEN depth ELSE MaxIndex)}
    ELSE {Abs(t) : t \in ClosedTermsOfSize(n - 1, depth + 1)}
         \cup UNION {{App(l, r) : l \in ClosedTermsOfSize(k, depth),
                                  r \in ClosedTermsOfSize(n - 1 - k, depth)} :
                     k \in 1..(n - 2)}

ClosedTerms == UNION {ClosedTermsOfSize(n, 0) : n \in 1..MaxTermSize}

InitReduce ==
    /\ overflow_checks \in BOOLEAN
    /\ caller = "reduce"
    /\ pc = "beta"
    /\ calculation \in ClosedTerms
    /\ bits = <<>>
    /\ arg = <<>>
    /\ input = "-"
    /\ steps = 0
    /\ output = <<>>
    /\ result = [tag |-> "-"]

\* one contraction of the leftmost-outermost redex
ReduceStep ==
    /\ caller = "reduce" /\ pc = "beta"
    /\ HasRedex(calculation)
    /\ steps < MaxSteps
    /\ calculation' = NorStep(calculation)
    /\ steps' = steps + 1
    /\ UNCHANGED <<overflow_checks, caller, pc, bits, arg, input, output, result>>

\* no redex is left: the normal form is returned
ReduceDone ==
    /\ caller = "reduce" /\ pc = "beta"
    /\ ~HasRedex(calculation)
    /\ result' = OkTerm(calculation)
    /\ pc' = "done"
    /\ UNCHANGED <<overflow_checks, caller, bits, arg, input, calculation, steps, output>>

NextReduce == ReduceStep \/ ReduceDone

SpecReduce == InitReduce /\ [][NextReduce]_vars

-----------------------------------------------------------------------------
(* The Church encodings of section 3, written out as terms *)

\* The Church list of section 3 with the given elements: fls when there are
\* none, else the pair λ.(1 head tail)
RECURSIVE ChurchList(_)
ChurchList(elems) ==
    IF elems = <<>> THEN <<"Abs", <<"Abs", <<"Var", 1>>>>>>
    ELSE <<"Abs", <<"App", <<"App", <<"Var", 1>>, elems[1]>>, ChurchList(Tail(elems))>>>>

\* bit k (1 = most significant) of a byte as a Church boolean: 0 is λλ2, 1 is λλ1
ChurchBit(byte, k) ==
    IF (byte \div (2 ^ (8 - k))) % 2 = 0
    THEN <<"Abs", <<"Abs", <<"Var", 2>>>>>>
    ELSE <<"Abs", <<"Abs", <<"Var", 1>>>>>>

\* the pair λ.(1 a b)
ChurchPair(a, b) == <<"Abs", <<"App", <<"App", <<"Var", 1>>, a>>, b>>>>

\* The Church lists of at most n elements drawn from S
ChurchListsUpTo(S, n) == {ChurchList(v) : v \in SeqsUpTo(S, n)}

-----------------------------------------------------------------------------
(* A caller of decode on terms of every shape *)

\* What may stand where a Church boolean belongs
ElementTerms == {tru, fls, Abs(Abs(Var(3))), Abs(Var(1)), Var(1)}

\* Heads that are lists: short lists of element terms, and whole bytes
\* Lists of eight and of nine elements, all alike
LongHeadLists ==
    {ChurchList([k \in 1..n |-> e]) : n \in {8, 9}, e \in {tru, fls, Abs(Abs(Var(3)))}}

HeadLists ==
    ChurchListsUpTo(ElementTerms, MaxHeadLen) \cup {encode_byte(b) : b \in ByteSample}
    \cup LongHeadLists

\* What may follow the head: the empty list, lists, and terms that are no list
TailTerms ==
    {fls, tru, Var(1), ChurchList(<<fls>>), ChurchList(<<encode_byte(97)>>),
     ChurchPair(tru, tru)}

\* A pair, the same without its binder, and the same applying another variable
LinkShapes(h, t) ==
    {ChurchPair(h, t), App(App(Var(1), h), t), Abs(App(App(Var(2), h), t))}

\* the bits of s = λλλ31(21) in test::decoding_lambda
DecodingLambdaS ==
    <<48,48,48,48,48,48,48,49,48,49,49,49,49,48,49,48,48,49,49,49,48,49,48>>

DecodeTerms ==
    ChurchListsUpTo({tru, fls}, MaxBitListLen)
    \cup UNION {LinkShapes(h, t) : h \in HeadLists \cup ElementTerms, t \in TailTerms}
    \cup ElementTerms
    \cup {from_bits(s).term : s \in CompleteTerms \cup {DecodingLambdaS}}

InitDecode ==
    /\ overflow_checks \in BOOLEAN
    /\ caller = "decode"
    /\ pc = "decode"
    /\ calculation \in DecodeTerms
    /\ bits = <<>>
    /\ arg = <<>>
    /\ input = "-"
    /\ steps = 0
    /\ output = <<>>
    /\ result = [tag |-> "-"]

CallDecodeTerm ==
    /\ caller = "decode" /\ pc = "decode"
    /\ result' = decode(calculation)
    /\ pc' = "done"
    /\ UNCHANGED <<overflow_checks, caller, bits, arg, input, calculation, steps, output>>

NextDecode == CallDecodeTerm

SpecDecode == InitDecode /\ [][NextDecode]_vars

-----------------------------------------------------------------------------
(* Callers of the pair-list operations.  calculation holds the term the      *)
(* operation is given, arg the terms pushed or listed, output what is read   *)
(* back.                                                                     *)

ListTerms == DecodeTerms

TermVectors == SeqsUpTo(ElementTerms \cup {ChurchList(<<fls>>)}, MaxTerms)

InitList ==
    /\ overflow_checks \in BOOLEAN
    /\ \/ /\ caller = "cons" /\ pc = "push"
          /\ calculation \in ListTerms
          /\ \E h \in ElementTerms \cup {ChurchList(<<tru>>)} : arg = <<h>>
       \/ /\ caller = "terms" /\ pc = "listify_terms"
          /\ calculation = <<>>
          /\ arg \in TermVectors
       \/ /\ caller = "is_list" /\ pc = "is_list"
          /\ calculation \in ListTerms
          /\ arg = <<>>
       \/ /\ caller = "is_pair" /\ pc = "is_pair"
          /\ calculation \in ListTerms
          /\ arg = <<>>
       \/ /\ caller = "pop" /\ pc = "pop"
          /\ calculation \in ListTerms
          /\ arg = <<calculation>>
    /\ bits = <<>>
    /\ input = "-"
    /\ steps = 0
    /\ output = <<>>
    /\ result = [tag |-> "-"]

\* push(list, term)
CallPush ==
    /\ caller = "cons" /\ pc = "push"
    /\ result' = push(calculation, arg[1])
    /\ pc' = IF result'.tag = "Ok" THEN "head_tail" ELSE "done"
    /\ UNCHANGED <<overflow_checks, caller, bits, arg, input, calculation, steps, output>>

\* head_ref and tail of the list push returned
CallHeadTail ==
    /\ caller = "cons" /\ pc = "head_tail"
    /\ output' = <<head_ref(result.val), tail(result.val)>>
    /\ pc' = "done"
    /\ UNCHANGED <<overflow_checks, caller, bits, arg, input, calculation, steps, result>>

CallListifyTerms ==
    /\ caller = "terms" /\ pc = "listify_terms"
    /\ calculation' = listify_terms(arg)
    /\ pc' = "vectorize_list"
    /\ UNCHANGED <<overflow_checks, caller, bits, arg, input, steps, output, result>>

CallVectorizeList ==
    /\ caller = "terms" /\ pc = "vectorize_list"
    /\ output' = vectorize_list(calculation)
    /\ pc' = "done"
    /\ UNCHANGED <<overflow_checks, caller, bits, arg, input, calculation, steps, result>>

CallIsList ==
    /\ caller = "is_list" /\ pc = "is_list"
    /\ result' = OkVal(is_list(calculation))
    /\ pc' = "done"
    /\ UNCHANGED <<overflow_checks, caller, bits, arg, input, calculation, steps, output>>

\* is_pair, then head_ref, tail and uncons of the same term
CallIsPair ==
    /\ caller = "is_pair" /\ pc = "is_pair"
    /\ result' = OkVal(is_pair(calculation))
    /\ output' = <<head_ref(calculation), tail(calculation), uncons(calculation)>>
    /\ pc' = "done"
    /\ UNCHANGED <<overflow_checks, caller, bits, arg, input, calculation, steps>>

\* pop(&mut term): calculation is the term before and after, arg keeps the
\* term as it was
CallPop ==
    /\ caller = "pop" /\ pc = "pop"
    /\ LET p == pop(calculation) IN
       /\ result' = (IF p.tag = "Ok" THEN OkVal(p.val) ELSE NotAList)
       /\ calculation' = p.term
    /\ pc' = "done"
    /\ UNCHANGED <<overflow_checks, caller, bits, arg, input, steps, output>>

NextList ==
    \/ CallPush \/ CallHeadTail \/ CallListifyTerms \/ CallVectorizeList \/ CallIsList
    \/ CallIsPair \/ CallPop

SpecList == InitList /\ [][NextList]_vars

-----------------------------------------------------------------------------
(* Every caller together *)

Init == InitBits \/ InitPack \/ InitLambda \/ InitRun \/ InitSpaced \/ InitReduce \/ InitDecode \/ InitList

Next == NextBits \/ NextPack \/ NextLambda \/ NextRun \/ NextSpaced \/ NextReduce \/ NextDecode \/ NextList

Spec == Init /\ [][Next]_vars

-----------------------------------------------------------------------------
(* Positions of the callers *)

FromBitsReturned == caller = "bits" /\ pc \in {"to_bits", "done"}

-----------------------------------------------------------------------------
(* Claims about the binary parser and serializer, checked under SpecBits *)

\* C1: for every bit string that is exactly one complete term of the grammar,
\* from_bits succeeds and to_bits of the parsed term gives the string back.
C1_BinaryRoundTrip ==
    (FromBitsReturned /\ IsCompleteTerm(bits)) =>
        /\ result.tag = "Ok"
        /\ pc = "done" => output = bits

C1_Witness ==
    /\ pc = "done"
    /\ IsCompleteTerm(bits)
    /\ result.tag = "Ok"
    /\ IsApp(result.term)
    /\ output = bits

\* C5: from_bits returns a term or NotATerm for every input and never aborts;
\* it is NotATerm for the empty input, for a 00 or 01 prefix whose subterms are
\* not all there, and for first two bytes that are none of 00, 01, 1x.
C5_FromBitsNeverAborts ==
    FromBitsReturned =>
        /\ result.tag \in {"Ok", "Err"}
        /\ bits = <<>> => result = NotATerm
        /\ (IsBitString(bits) /\ Len(bits) >= 2 /\ bits[1] = 48
               /\ \A k \in 1..Len(bits) : ~IsCompleteTerm(SubSeq(bits, 1, k)))
              => result = NotATerm
        /\ (Len(bits) >= 2 /\ bits[1] \notin Whitespace \cup {49}
               /\ SubSeq(bits, 1, 2) \notin {<<48, 48>>, <<48, 49>>})
              => result = NotATerm

\* C6 as stated: whenever from_bits succeeds the returned term is closed,
\* every Var(i) lying under at least i enclosing Abs nodes.
C6_ParsedTermClosed ==
    (FromBitsReturned /\ result.tag = "Ok") => Closed(result.term, 0)

\* C6 as amended: whenever from_bits succeeds every Var(i) of the returned
\* term has i >= 1; the parser checks no scope, so the term may be open.
C6_ParsedIndicesPositive ==
    (FromBitsReturned /\ result.tag = "Ok") => IndicesPositive(result.term)

C6_Witness ==
    /\ FromBitsReturned
    /\ result.tag = "Ok"
    /\ IsAbs(result.term)
    /\ ~Closed(result.term, 0)
    /\ IndicesPositive(result.term)

\* C10: trailing bytes are ignored: when a prefix s of the input is one
\* complete term, from_bits of the whole input succeeds and equals from_bits(s),
\* whatever bytes follow s.
C10_TrailingBytesIgnored ==
    FromBitsReturned =>
        \A k \in 1..Len(bits) :
            IsCompleteTerm(SubSeq(bits, 1, k)) =>
                /\ result.tag = "Ok"
                /\ result = from_bits(SubSeq(bits, 1, k))
                /\ to_bits(result.term) = SubSeq(bits, 1, k)

C10_Witness ==
    /\ FromBitsReturned
    /\ result.tag = "Ok"
    /\ \E k \in 1..(Len(bits) - 2) :
           /\ IsCompleteTerm(SubSeq(bits, 1, k))
           /\ bits[k + 1] = 120
           /\ bits[Len(bits)] = 49

-----------------------------------------------------------------------------
(* Claims about packing, checked under SpecPack *)

\* The big-endian value of the 8-bit group of s that starts at position p,
\* bits past the end of s counting as 0.
GroupValue(s, p) ==
    LET bit(k) == IF p + k <= Len(s) THEN s[p + k] - 48 ELSE 0 IN
    128 * bit(0) + 64 * bit(1) + 32 * bit(2) + 16 * bit(3)
        + 8 * bit(4) + 4 * bit(5) + 2 * bit(6) + bit(7)

CeilDiv8(n) == (n + 7) \div 8

\* C3: for every byte sequence b, the empty one included,
\* compress(decompress(b)) returns normally and equals b.
C3_PackingRoundTrip ==
    (caller = "unpack" /\ pc = "done") => result = OkVal(arg)

\* C4: for every string s of '0'/'1' of any length, lengths 0 to 7 included,
\* compress(s) returns ceil(len(s)/8) bytes, each the big-endian value of its
\* 8-bit group, the last group right-padded with '0'; decompress of that is s
\* followed by the '0' bits up to the next multiple of 8.
C4_CompressPadsLastGroup ==
    (caller = "pack" /\ pc \in {"decompress", "done"}) =>
        /\ result.tag = "Ok"
        /\ Len(result.val) = CeilDiv8(Len(bits))
        /\ \A g \in 1..Len(result.val) : result.val[g] = GroupValue(bits, 8 * (g - 1) + 1)
        /\ pc = "done" => output = bits \o Zeros(8 * CeilDiv8(Len(bits)) - Len(bits))

-----------------------------------------------------------------------------
(* Claims about the lambda codec, checked under SpecLambda *)

\* C2: for every byte sequence b, of any byte values and the empty one
\* included, decode(encode(b)) succeeds and is the text whose i-th character
\* has code point b[i].
C2_LambdaRoundTrip ==
    (caller = "lambda" /\ pc = "done") => result = OkVal(arg)

C2_Witness ==
    /\ caller = "lambda" /\ pc = "done"
    /\ Len(arg) = 2 /\ arg[1] = 200 /\ arg[2] = 49
    /\ result = OkVal(arg)

-----------------------------------------------------------------------------
(* Claims about run, checked under SpecRun *)

RunReturned == caller = "run" /\ pc = "done"

\* run got as far as decoding a normal form
RunDecoded == RunReturned /\ calculation # <<>> /\ ~HasRedex(calculation)

\* C7: run returns InvalidProgram whenever the program bits fail to parse,
\* whatever the input variant, and InvalidArgument exactly when the program
\* parses and the input is Binary(bs) with from_bits(bs) failing.
C7_RunErrorMapping ==
    RunReturned =>
        /\ from_bits(bits).tag # "Ok" => result = InvalidProgram
        /\ result = InvalidArgument <=>
               (from_bits(bits).tag = "Ok" /\ input = "Binary" /\ from_bits(arg).tag # "Ok")

\* C8: for the identity program decompress(<<0x20>>), run(program, Bytes(b))
\* returns b as text for every byte sequence b: the program parses to λ1, the
\* trailing bits ignored, is applied to encode(b), reduced and decoded.
C8_IdentityEchoesBytes ==
    (caller = "run" /\ bits = decompress(<<32>>) /\ input = "Bytes") =>
        /\ (pc = "beta" /\ steps = 0) =>
               calculation = App(Abs(Var(1)), lambda_encoding_encode(arg))
        /\ (pc = "beta" /\ steps > 0) => calculation = lambda_encoding_encode(arg)
        /\ pc = "done" => (result = OkVal(arg) /\ steps = 1)

C8_Witness ==
    /\ RunReturned
    /\ bits = <<48, 48, 49, 48, 48, 48, 48, 48>>
    /\ input = "Bytes"
    /\ Len(arg) = 2 /\ arg[1] = 104 /\ arg[2] = 49
    /\ result = OkVal(arg)

\* C9: when decoding the reduced term fails, a byte-shaped head list holding
\* an element that is no Church boolean, run returns the error InvalidProgram.
C9_DecodeFailureIsInvalidProgram ==
    (RunDecoded /\ decode(calculation) = NotATerm) => result = InvalidProgram

-----------------------------------------------------------------------------
(* Claims about whitespace in the parser's input, checked under SpecSpaced *)

\* C11: whitespace bytes (9, 10, 13, 32) inserted before the first token,
\* between two tokens or after the last token of a complete term's bit string
\* do not change what from_bits returns.
C11_WhitespaceSkipped ==
    (caller = "spaced" /\ pc = "done") => result = from_bits(arg)

C11_Witness ==
    /\ caller = "spaced" /\ pc = "done"
    /\ arg = <<48, 49, 49, 48, 49, 48>>
    /\ bits = <<48, 49, 9, 49, 48, 32, 49, 48>>
    /\ result = OkTerm(App(Var(1), Var(1)))

-----------------------------------------------------------------------------
(* Claims about the reducer, checked under SpecReduce *)

\* C12: starting from a closed term with all indices >= 1, the term after
\* every beta-contraction of normal-order reduction, and the normal form
\* returned, is closed and holds no Var(0) or negative index.
C12_ReducerPreservesClosedness ==
    caller = "reduce" =>
        /\ Closed(calculation, 0)
        /\ IndicesPositive(calculation)
        /\ pc = "done" => Closed(result.term, 0) /\ IndicesPositive(result.term)

\* a contraction under two binders whose argument is a bound variable of theirs
C12_Witness ==
    /\ caller = "reduce" /\ pc = "done"
    /\ steps = 1
    /\ result.term = Abs(Abs(Var(2)))
    /\ calculation = result.term

-----------------------------------------------------------------------------
(* Claims about the shape of encoded strings, checked under SpecLambda *)

-----------------------------------------------------------------------------
(* Claims about decode, checked under SpecDecode *)

DecodeReturned == caller = "decode" /\ pc = "done"

\* A Church list all of whose elements are λλ2 or λλ1
RECURSIVE IsBoolList(_)
IsBoolList(t) ==
    \/ t = <<"Abs", <<"Abs", <<"Var", 1>>>>>>
    \/ /\ t[1] = "Abs" /\ t[2][1] = "App" /\ t[2][2][1] = "App"
       /\ t[2][2][2] = <<"Var", 1>>
       /\ t[2][2][3] \in {<<"Abs", <<"Abs", <<"Var", 2>>>>>>, <<"Abs", <<"Abs", <<"Var", 1>>>>>>}
       /\ IsBoolList(t[2][3])

\* '0' for each λλ2 and '1' for each λλ1 of such a list, in list order
RECURSIVE BitText(_)
BitText(t) ==
    IF t = <<"Abs", <<"Abs", <<"Var", 1>>>>>> THEN <<>>
    ELSE <<(IF t[2][2][3] = <<"Abs", <<"Abs", <<"Var", 2>>>>>> THEN 48 ELSE 49)>>
         \o BitText(t[2][3])

\* C14: for every Church list whose elements are each tru or fls, decode
\* succeeds and returns the string of the same length with '0' for each tru
\* and '1' for each fls, in list order.
C14_BitEcho ==
    (DecodeReturned /\ IsBoolList(calculation)) =>
        result = [tag |-> "Ok", val |-> BitText(calculation)]

C14_Witness ==
    /\ DecodeReturned
    /\ calculation = ChurchList(<<tru, fls, fls>>)
    /\ result = OkVal(<<48, 49, 49>>)

\* C16: when decode reaches a list whose head is itself a list, the head is
\* accepted as a byte only if every element is Abs(Abs(Var(k))) with k in
\* {1, 2}; with an element of another shape or another index, decode returns
\* NotATerm.
C16_ByteElementsChecked ==
    (/\ DecodeReturned
     /\ is_list(calculation)
     /\ is_list(head_ref(calculation).val)
     /\ LET elems == vectorize_list(head_ref(calculation).val) IN
        \E k \in 1..Len(elems) :
            elems[k] \notin {<<"Abs", <<"Abs", <<"Var", 1>>>>>>,
                             <<"Abs", <<"Abs", <<"Var", 2>>>>>>}) =>
        result = NotATerm

\* C19: decode is total: for every term with indices >= 1 it returns text or
\* NotATerm and never aborts, also for a pair whose head is fls or tru and
\* whose second component does not end in fls.
C19_DecodeTotal ==
    (DecodeReturned /\ IndicesPositive(calculation)) => result.tag \in {"Ok", "Err"}

-----------------------------------------------------------------------------
(* Claims about the pair-list operations, checked under SpecList *)

\* A list as section 4.D defines it: fls, or a pair λ.(1 a b) whose second
\* component is a list
RECURSIVE IsChurchList(_)
IsChurchList(t) ==
    \/ t = <<"Abs", <<"Abs", <<"Var", 1>>>>>>
    \/ /\ t[1] = "Abs" /\ t[2][1] = "App" /\ t[2][2][1] = "App"
       /\ t[2][2][2] = <<"Var", 1>>
       /\ IsChurchList(t[2][3])

\* C17: for every term h and every t that is fls or a list, cons(h, t)
\* succeeds, its head is h and its tail is t; and for every finite sequence v
\* of terms, vectorize_list(listify_terms(v)) = v.
C17_PairListLaws ==
    /\ (caller = "cons" /\ pc \in {"head_tail", "done"} /\ IsChurchList(calculation)) =>
           /\ result.tag = "Ok"
           /\ pc = "done" =>
                  output = <<[tag |-> "Ok", val |-> arg[1]],
                             [tag |-> "Ok", val |-> calculation]>>
    /\ (caller = "terms" /\ pc = "done") => output = arg

C17_Witness ==
    /\ caller = "cons" /\ pc = "done"
    /\ calculation = ChurchList(<<tru, fls>>)
    /\ arg = <<Abs(Var(1))>>
    /\ result = OkVal(ChurchList(<<Abs(Var(1)), tru, fls>>))
    /\ output = <<OkVal(Abs(Var(1))), OkVal(calculation)>>

\* C20: is_list(t) holds exactly when t is fls or t is a pair whose second
\* component is a list; in particular is_list(fls) is true.
C20_IsListOfEveryList ==
    (caller = "is_list" /\ pc = "done") =>
        (result.val <=> IsChurchList(calculation))

-----------------------------------------------------------------------------
(* Claims about what the parser accepts, checked under SpecBits *)

\* The position after the complete term that starts at p, whitespace before
\* each of its tokens skipped; 0 when there is none.
RECURSIVE SpacedTermEnd(_, _)
SpacedTermEnd(s, p) ==
    IF p > Len(s) THEN 0
    ELSE IF s[p] \in SpacingBytes THEN SpacedTermEnd(s, p + 1)
    ELSE IF p + 1 > Len(s) THEN 0
    ELSE IF s[p] = 48 /\ s[p + 1] = 48 THEN SpacedTermEnd(s, p + 2)
    ELSE IF s[p] = 48 /\ s[p + 1] = 49 THEN
         LET m == SpacedTermEnd(s, p + 2) IN IF m = 0 THEN 0 ELSE SpacedTermEnd(s, m)
    ELSE IF s[p] = 49 THEN VarEnd(s, p + 1)
    ELSE 0

\* C18: from_bits succeeds only on inputs that start, after skipped
\* whitespace, with a complete term; a variable is i >= 1 '1' bytes followed
\* by a '0' byte, so a run of '1's without the '0' (such as "11"), or followed
\* by another byte, never yields a term.
C18_OnlyCompleteTermsAccepted ==
    (FromBitsReturned /\ result.tag = "Ok") => SpacedTermEnd(bits, 1) # 0

-----------------------------------------------------------------------------
(* Claims about the shape of pairs, checked under SpecList *)

\* A pair as section 4.D defines it: λ.(1 a b)
IsChurchPair(t) ==
    /\ t[1] = "Abs" /\ t[2][1] = "App" /\ t[2][2][1] = "App"
    /\ t[2][2][2] = <<"Var", 1>>

\* C21: is_pair(t) holds exactly when t is Abs(App(App(Var(1), a), b)); a
\* term without the outer binder, or applying something other than Var(1), is
\* no pair, and head, tail and uncons return NotAList for it.
C21_PairShape ==
    (caller = "is_pair" /\ pc = "done") =>
        /\ result.val <=> IsChurchPair(calculation)
        /\ ~IsChurchPair(calculation) => output = <<NotAList, NotAList, NotAList>>

-----------------------------------------------------------------------------
(* Claims about decode that rest on what a pair is, checked under SpecDecode *)

\* C15: for every term that is not fls, is not a list whose head is a list,
\* and whose head (if it has one, being a pair) is neither fls nor tru, decode
\* succeeds and returns "(" followed by the display form of the term followed
\* by ")", never NotATerm.
C15_DecodeFallback ==
    (/\ DecodeReturned
     /\ calculation # <<"Abs", <<"Abs", <<"Var", 1>>>>>>
     /\ ~(IsChurchList(calculation) /\ IsChurchList(calculation[2][2][3]))
     /\ IsChurchPair(calculation) =>
            calculation[2][2][3] \notin {<<"Abs", <<"Abs", <<"Var", 1>>>>>>,
                                         <<"Abs", <<"Abs", <<"Var", 2>>>>>>}) =>
        result = [tag |-> "Ok", val |-> <<40>> \o Display(calculation) \o <<41>>]

-----------------------------------------------------------------------------
(* Claims about the arithmetic of decode_byte, checked under SpecDecode *)

\* The elements of a Church list
RECURSIVE ChurchElems(_)
ChurchElems(t) ==
    IF t = <<"Abs", <<"Abs", <<"Var", 1>>>>>> THEN <<>>
    ELSE <<t[2][2][3]>> \o ChurchElems(t[2][3])

\* acc * 2 + (k - 1) folded over the elements λλk, in unbounded integers
RECURSIVE ExactFold(_, _)
ExactFold(acc, elems) ==
    IF elems = <<>> THEN acc
    ELSE ExactFold(acc * 2 + (elems[1][2][2][2] - 1), Tail(elems))

\* A non-empty Church list all of whose elements are λλk with k >= 1
IsByteHead(h) ==
    /\ IsChurchList(h)
    /\ h # <<"Abs", <<"Abs", <<"Var", 1>>>>>>
    /\ LET elems == ChurchElems(h) IN
       \A i \in 1..Len(elems) :
           /\ elems[i][1] = "Abs" /\ elems[i][2][1] = "Abs" /\ elems[i][2][2][1] = "Var"
           /\ elems[i][2][2][2] >= 1

\* C22: for every head list that decode treats as a byte, of any length and
\* with any index k >= 1 in its elements, the fold acc * 2 + (k - 1) in the
\* 8-bit accumulator never overflows: decode does not abort, and the byte it
\* emits is the complement of the exact value of the fold.
C22_ByteAssemblyInRange ==
    (/\ DecodeReturned
     /\ IsChurchList(calculation)
     /\ IsChurchPair(calculation)
     /\ IsByteHead(calculation[2][2][3])) =>
        /\ result.tag # "Panic"
        /\ result.tag = "Ok" =>
               result.val[1] = 255 - ExactFold(0, ChurchElems(calculation[2][2][3]))

-----------------------------------------------------------------------------
(* Claims about pop, checked under SpecList *)

RECURSIVE HasVarZero(_)
HasVarZero(t) ==
    IF t[1] = "Var" THEN t[2] = 0
    ELSE IF t[1] = "Abs" THEN HasVarZero(t[2])
    ELSE HasVarZero(t[2]) \/ HasVarZero(t[3])

\* C23: after pop(term) returns, term holds no Var(0); when pop fails with
\* NotAList because term is no pair, term is left as it was; when it succeeds,
\* term is the former tail and the value returned the former head.
C23_PopLeavesNoTombstone ==
    (caller = "pop" /\ pc = "done") =>
        /\ ~HasVarZero(calculation)
        /\ result = NotAList => calculation = arg[1]
        /\ (result.tag = "Ok" /\ IsChurchPair(arg[1])) =>
               /\ calculation = arg[1][2][3]
               /\ result.val = arg[1][2][2][3]

====
